---- MODULE Spec2Model ----
(***************************************************************************)
(* kr-transformer: Transformer.fromJSON / Transformer.toJSON               *)
(* (src/src/Transformer.ts, the class at lines 35-221, the revision with   *)
(* field descriptors and toJSON; lines 222-337 of the file hold an earlier *)
(* revision of fromJSON, which is not modelled).                           *)
(*                                                                         *)
(* JavaScript values are records tagged by k.  Objects carry the name of   *)
(* their prototype's constructor (proto) and their own properties in       *)
(* Reflect.ownKeys order (e).  Source values are JSON values: primitives,  *)
(* null, arrays and plain objects; no two of their objects are the same    *)
(* reference.                                                              *)
(***************************************************************************)
EXTENDS Integers, Sequences, FiniteSets, TLC

\* ---------------------------------------------------------------- bounds
\* longest array / largest key count of a generated source value
MaxLen == 2

\* ---------------------------------------------------------------- values
Undef == [k |-> "undefined"]
Null == [k |-> "null"]
Str(s) == [k |-> "string", s |-> s]
Num(n) == [k |-> "number", n |-> n]
Bool(b) == [k |-> "boolean", b |-> b]
Fn(name) == [k |-> "function", name |-> name]
Arr(items) == [k |-> "array", items |-> items]
SetOf(items) == [k |-> "set", items |-> items]
MapOf(e) == [k |-> "map", e |-> e]
DateOf(t) == [k |-> "date", valid |-> TRUE, t |-> t]
InvalidDate == [k |-> "date", valid |-> FALSE, t |-> 0]
Obj(proto, e) == [k |-> "object", proto |-> proto, e |-> e]
\* an own data property; w = writable, en = enumerable, sym = symbol key
Prop(key, val) == [key |-> key, val |-> val, w |-> TRUE, en |-> TRUE, sym |-> FALSE]

\* the clock reading taken by `new Date()` (milliseconds, 1970-01-03)
Now == 172800000

\* typeof v
TypeOf(v) ==
  CASE v.k = "undefined" -> "undefined"
    [] v.k = "string" -> "string"
    [] v.k = "number" -> "number"
    [] v.k = "boolean" -> "boolean"
    [] v.k = "function" -> "function"
    [] OTHER -> "object"

\* !v  (ToBoolean(v) is false)
Falsy(v) ==
  \/ v.k \in {"undefined", "null"}
  \/ v = Str("")
  \/ v = Num(0)
  \/ v = Bool(FALSE)

\* Object(v) === v
IsObject(v) == v.k \notin {"undefined", "null", "string", "number", "boolean"}

\* `v === undefined` in place of `v == null`
IsNullishUndefinedOnly(v) == v.k = "undefined"

\* v == null
IsNullish(v) == v.k \in {"undefined", "null"}

\* index of the own property `key` of an object value, 0 when absent
KeyIndex(o, key) ==
  IF \E i \in 1..Len(o.e) : o.e[i].key = key /\ ~o.e[i].sym
  THEN CHOOSE i \in 1..Len(o.e) : o.e[i].key = key /\ ~o.e[i].sym
  ELSE 0

\* position (1-based) of the array index named by `key`, 0 when none
ArrayIndex(a, key) ==
  IF \E i \in 1..Len(a.items) : ToString(i - 1) = key
  THEN CHOOSE i \in 1..Len(a.items) : ToString(i - 1) = key
  ELSE 0

\* Reflect.getOwnPropertyDescriptor(json, property) is not undefined
HasOwn(json, key) ==
  CASE json.k = "object" -> KeyIndex(json, key) # 0
    [] json.k = "array" -> key = "length" \/ ArrayIndex(json, key) # 0
    [] OTHER -> FALSE

\* Reflect.get(o, key) for an object-typed o; no modelled key is inherited
Get(o, key) ==
  CASE o.k = "object" ->
         IF KeyIndex(o, key) # 0 THEN o.e[KeyIndex(o, key)].val ELSE Undef
    [] o.k = "array" ->
         IF key = "length" THEN Num(Len(o.items))
         ELSE IF ArrayIndex(o, key) # 0 THEN o.items[ArrayIndex(o, key)]
         ELSE Undef
    [] OTHER -> Undef

\* Object.entries(o): own enumerable string-keyed properties
RECURSIVE IndexEntries(_, _)
IndexEntries(items, i) ==
  IF i > Len(items) THEN <<>>
  ELSE <<Prop(ToString(i - 1), items[i])>> \o IndexEntries(items, i + 1)

Entries(o) ==
  CASE o.k = "object" -> SelectSeq(o.e, LAMBDA p : p.en /\ ~p.sym)
    [] o.k = "array" -> IndexEntries(o.items, 1)
    [] OTHER -> <<>>

\* Reflect.ownKeys(v) with the property each key names
OwnProps(v) ==
  CASE v.k = "object" -> v.e
    [] v.k = "array" ->
         IndexEntries(v.items, 1)
           \o <<[key |-> "length", val |-> Num(Len(v.items)), w |-> TRUE,
                 en |-> FALSE, sym |-> FALSE]>>
    [] OTHER -> <<>>

\* outcomes of a call: normal completion with a value, or a thrown error
Ok(v) == [st |-> "ok", v |-> v]
Throw(err, msg) == [st |-> "throw", err |-> err, msg |-> msg]
TErr(msg) == Throw("TransformerError", msg)
TypeError == Throw("TypeError", "Reflect.get called on non-object")

\* ------------------------------------------------------------ Date
\* Date.parse on the strings of the model; -1 stands for NaN
DateParse(s) ==
  CASE s = "1970-01-01" -> 0
    [] s = "1970-01-02" -> 86400000
    [] OTHER -> -1

\* new Date(v) for a string or a number
NewDate(v) ==
  IF v.k = "string"
  THEN IF DateParse(v.s) < 0 THEN InvalidDate ELSE DateOf(DateParse(v.s))
  ELSE DateOf(v.n)

Pad2(n) == IF n < 10 THEN "0" \o ToString(n) ELSE ToString(n)
Pad3(n) == IF n < 10 THEN "00" \o ToString(n)
           ELSE IF n < 100 THEN "0" \o ToString(n) ELSE ToString(n)

\* Date.prototype.toISOString for a time in January 1970
ISOString(t) ==
  LET day == (t \div 86400000) + 1
      rem == t % 86400000
      hh == rem \div 3600000
      mm == (rem % 3600000) \div 60000
      ss == (rem % 60000) \div 1000
      ms == rem % 1000
  IN "1970-01-" \o Pad2(day) \o "T" \o Pad2(hh) \o ":" \o Pad2(mm) \o ":"
       \o Pad2(ss) \o "." \o Pad3(ms) \o "Z"

\* ------------------------------------------------------------ classes
\* A constructor: ctor says what `new C()` does ("new": returns inst,
\* "arrow": not a constructor, "throws": the constructor body throws);
\* types is the static property `types` (Undef when not declared).
MkClass(name, ctor, inst, types) ==
  [name |-> name, ctor |-> ctor, inst |-> inst, types |-> types]

\* the constructors that descriptors and prototypes refer to by name
ClassDef(name) ==
  CASE name = "Object" -> MkClass("Object", "new", Obj("Object", <<>>), Undef)
    [] name = "Array" -> MkClass("Array", "new", Arr(<<>>), Undef)
    [] name = "Set" -> MkClass("Set", "new", SetOf(<<>>), Undef)
    [] name = "Map" -> MkClass("Map", "new", MapOf(<<>>), Undef)
    [] name = "Date" -> MkClass("Date", "new", DateOf(Now), Undef)
    [] name = "String" ->
         MkClass("String", "new",
               Obj("String", <<[key |-> "length", val |-> Num(0), w |-> FALSE,
                                en |-> FALSE, sym |-> FALSE]>>), Undef)
    [] name = "Number" -> MkClass("Number", "new", Obj("Number", <<>>), Undef)
    [] name = "Boolean" -> MkClass("Boolean", "new", Obj("Boolean", <<>>), Undef)
    \* class Bar {}
    [] name = "Bar" -> MkClass("Bar", "new", Obj("Bar", <<>>), Undef)
    \* class Organization { name = 'x' }
    [] name = "Organization" ->
         MkClass("Organization", "new",
               Obj("Organization", <<Prop("name", Str("x"))>>), Undef)
    \* () => {}
    [] OTHER -> MkClass(name, "arrow", Undef, Undef)

\* new T() for a value T; T need not be a constructor
New(T) ==
  IF T.k = "function" /\ ClassDef(T.name).ctor = "new"
  THEN Ok(ClassDef(T.name).inst)
  ELSE Throw("TypeError", "not a constructor")

\* Reflect.getPrototypeOf(value)?.constructor, by name; "" when undefined
ConstructorOf(value) ==
  CASE value.k = "object" -> IF value.proto = "null" THEN "" ELSE value.proto
    [] value.k = "array" -> "Array"
    [] value.k = "set" -> "Set"
    [] value.k = "map" -> "Map"
    [] value.k = "date" -> "Date"
    [] OTHER -> ""

\* ------------------------------------------------------------ fromJSON
\* Transformer.#shouldThrow(strict, descriptor)
shouldThrow(strict, descriptor) ==
  IF Falsy(descriptor) THEN strict
  ELSE (Get(descriptor, "strict") = Bool(TRUE)) \/ strict

\* Transformer.#isPrimitive(type)
isPrimitive(type) == type \in {Fn("String"), Fn("Number"), Fn("Boolean")}

\* ReflectSet as `Reflect.set(instance, property, jsonValue || value)` would
\* behave: a falsy V leaves the field as it is
ReflectSetTruthy(instance, i, V, receiverIsObject) ==
  IF receiverIsObject /\ ~Falsy(V) THEN [instance EXCEPT !.e[i].val = V]
  ELSE instance

\* Reflect.set(instance, property, V, receiver) on the own writable data
\* property at position i: OrdinarySet assigns only when the receiver is an
\* object, and otherwise returns false without throwing
ReflectSet(instance, i, V, receiverIsObject) ==
  IF receiverIsObject THEN [instance EXCEPT !.e[i].val = V] ELSE instance

\* Set.prototype.add: SameValueZero on primitives; every object of a source
\* value and every instance built by fromJSON is a reference of its own
SetAdd(items, x) ==
  IF ~IsObject(x) /\ (\E i \in 1..Len(items) : items[i] = x)
  THEN items ELSE Append(items, x)

\* Map.prototype.set with a string key
MapSet(e, key, val) ==
  IF \E i \in 1..Len(e) : e[i].key = key
  THEN [i \in 1..Len(e) |-> IF e[i].key = key THEN [e[i] EXCEPT !.val = val] ELSE e[i]]
  ELSE Append(e, Prop(key, val))

RECURSIVE fromJSON(_, _, _)
RECURSIVE forEachProperty(_, _, _, _, _)
RECURSIVE pushElements(_, _, _, _, _)
RECURSIVE setEntries(_, _, _, _, _)
RECURSIVE addItems(_, _, _, _, _)

\* this.fromJSON(json, Type, strict) where Type is a value read from a
\* descriptor or a prototype
fromJSONOf(json, Type, strict) ==
  IF Type.k = "function" THEN fromJSON(json, ClassDef(Type.name), strict)
  ELSE TErr("INVALID_CONSTRUCTOR")

\* for (const element of jsonValue) value.push(this.fromJSON(element, Type, shouldThrow))
pushElements(acc, items, i, Type, throwable) ==
  IF i > Len(items) THEN Ok(acc)
  ELSE LET r == fromJSONOf(items[i], Type, throwable)
       IN IF r.st = "ok"
          THEN pushElements(Append(acc, r.v), items, i + 1, Type, throwable)
          ELSE r

\* Object.entries(jsonValue).forEach(([k, v]) => map.set(k, ...))
setEntries(acc, entries, i, Type, throwable) ==
  IF i > Len(entries) THEN Ok(acc)
  ELSE IF ~Falsy(Type) /\ ~isPrimitive(Type)
       THEN LET r == fromJSONOf(entries[i].val, Type, throwable)
            IN IF r.st = "ok"
               THEN setEntries(MapSet(acc, entries[i].key, r.v), entries, i + 1,
                               Type, throwable)
               ELSE r
       ELSE setEntries(MapSet(acc, entries[i].key, entries[i].val), entries,
                       i + 1, Type, throwable)

\* jsonValue.forEach(item => set.add(...))
addItems(acc, items, i, Type, throwable) ==
  IF i > Len(items) THEN Ok(acc)
  ELSE IF ~Falsy(Type) /\ ~isPrimitive(Type)
       THEN LET r == fromJSONOf(items[i], Type, throwable)
            IN IF r.st = "ok"
               THEN addItems(SetAdd(acc, r.v), items, i + 1, Type, throwable)
               ELSE r
       ELSE addItems(SetAdd(acc, items[i]), items, i + 1, Type, throwable)

\* lines 155-164: the prototype-less default and the nested typed object.
\* The recursive call gets no third argument (strict defaults to true) and
\* its result is offered to Reflect.set with the boolean shouldThrow as the
\* receiver, so the field is not assigned.
nestedObject(instance, i, value, jsonValue, throwable) ==
  IF ConstructorOf(value) = ""
  THEN IF (throwable /\ IsNullish(jsonValue)) \/ TypeOf(jsonValue) # "object"
       THEN TErr("INVALID_TYPE")
       ELSE Ok(ReflectSet(instance, i, jsonValue, TRUE))
  ELSE LET r == fromJSON(jsonValue, ClassDef(ConstructorOf(value)), TRUE)
       IN IF r.st = "ok" THEN Ok(ReflectSet(instance, i, r.v, FALSE)) ELSE r

\* lines 77-164: one property whose type-giving value is `value`; own tells
\* whether `value` is the object held by the field (a truthy default) or a
\* placeholder constructed from descriptor.type
transformProperty(instance, i, json, descriptor, throwable, value, own) ==
  LET property == OwnProps(instance)[i].key
      jsonValue == Get(json, property)
      keep(v) == IF own THEN ReflectSet(instance, i, v, TRUE) ELSE instance
  IN
  IF TypeOf(value) = "function" THEN Ok(instance)
  ELSE IF throwable /\ ~HasOwn(json, property) THEN TErr("MISMATCH_SCHEMA")
  ELSE IF ~IsObject(value)
  THEN IF throwable /\ TypeOf(value) # TypeOf(jsonValue)
       THEN TErr("INVALID_TYPE")
       ELSE Ok(ReflectSet(instance, i, jsonValue, TRUE))
  ELSE IF value.k = "array"
  THEN IF jsonValue.k # "array"
       THEN IF throwable THEN TErr("INVALID_ARRAY_TYPE")
            ELSE Ok(ReflectSet(instance, i, jsonValue, TRUE))
       ELSE IF ~IsObject(descriptor) THEN TypeError
       ELSE IF Falsy(Get(descriptor, "of")) \/ isPrimitive(Get(descriptor, "of"))
       THEN Ok(ReflectSet(instance, i, jsonValue, TRUE))
       ELSE LET r == pushElements(value.items, jsonValue.items, 1,
                                  Get(descriptor, "of"), throwable)
            IN IF r.st = "ok" THEN Ok(keep(Arr(r.v))) ELSE r
  ELSE IF value.k = "map"
  THEN IF TypeOf(jsonValue) # "object" \/ IsNullish(jsonValue)
       THEN IF throwable THEN TErr("INVALID_MAP_TYPE")
            ELSE Ok(ReflectSet(instance, i, jsonValue, TRUE))
       ELSE IF ~IsObject(descriptor) THEN TypeError
       ELSE LET r == setEntries(value.e, Entries(jsonValue), 1,
                                Get(descriptor, "of"), throwable)
            IN IF r.st = "ok" THEN Ok(keep(MapOf(r.v))) ELSE r
  ELSE IF value.k = "set"
  THEN IF jsonValue.k # "array"
       THEN IF throwable THEN TErr("INVALID_SET_TYPE")
            ELSE Ok(ReflectSet(instance, i, jsonValue, TRUE))
       ELSE IF ~IsObject(descriptor) THEN TypeError
       ELSE LET r == addItems(value.items, jsonValue.items, 1,
                              Get(descriptor, "off"), throwable)
            IN IF r.st = "ok"
               THEN nestedObject(keep(SetOf(r.v)), i, value, jsonValue, throwable)
               ELSE r
  ELSE IF value.k = "date"
  THEN IF throwable THEN TErr("INVALID_TYPE")
       ELSE nestedObject(
              ReflectSet(instance, i,
                         IF TypeOf(jsonValue) \in {"string", "number"}
                         THEN NewDate(jsonValue) ELSE jsonValue, TRUE),
              i, value, jsonValue, throwable)
  ELSE nestedObject(instance, i, value, jsonValue, throwable)

\* visitProperty without `if (typeof property === 'symbol') { return; }`
visitPropertySymbols(instance, i, json, C, strict) ==
  LET p == OwnProps(instance)[i]
      types == IF Falsy(C.types) THEN Obj("null", <<>>) ELSE C.types
      descriptor == Get(types, p.key)
      throwable == shouldThrow(strict, descriptor)
      value == p.val
  IN
  IF ~p.w THEN Ok(instance)
  ELSE IF Falsy(value)
  THEN IF throwable /\ Falsy(descriptor) THEN TErr("TYPE_NOT_FOUND")
       ELSE IF ~IsObject(descriptor) \/ New(Get(descriptor, "type")).st # "ok"
       THEN TErr("INVALID_TYPES_CONSTRUCTOR")
       ELSE transformProperty(instance, i, json, descriptor, throwable,
                              New(Get(descriptor, "type")).v, FALSE)
  ELSE transformProperty(instance, i, json, descriptor, throwable, value, TRUE)

\* lines 58-75: the body of Reflect.ownKeys(instance).forEach for the
\* property at position i
visitProperty(instance, i, json, C, strict) ==
  LET p == OwnProps(instance)[i]
      types == IF Falsy(C.types) THEN Obj("null", <<>>) ELSE C.types
      descriptor == Get(types, p.key)
      throwable == shouldThrow(strict, descriptor)
      value == p.val
  IN
  IF ~p.w THEN Ok(instance)
  ELSE IF p.sym THEN Ok(instance)
  ELSE IF Falsy(value)
  THEN IF throwable /\ Falsy(descriptor) THEN TErr("TYPE_NOT_FOUND")
       ELSE IF ~IsObject(descriptor) \/ New(Get(descriptor, "type")).st # "ok"
       THEN TErr("INVALID_TYPES_CONSTRUCTOR")
       ELSE transformProperty(instance, i, json, descriptor, throwable,
                              New(Get(descriptor, "type")).v, FALSE)
  ELSE transformProperty(instance, i, json, descriptor, throwable, value, TRUE)

forEachProperty(instance, i, json, C, strict) ==
  IF i > Len(OwnProps(instance)) THEN Ok(instance)
  ELSE LET r == visitProperty(instance, i, json, C, strict)
       IN IF r.st = "ok" THEN forEachProperty(r.v, i + 1, json, C, strict) ELSE r

\* Transformer.fromJSON(json, Class, strict)
fromJSON(json, C, strict) ==
  IF C.ctor = "absent" THEN TErr("INVALID_NUMBER_OF_ARGUMENTS")
  ELSE IF C.ctor # "new" THEN TErr("INVALID_CONSTRUCTOR")
  ELSE IF IsNullish(json) \/ TypeOf(json) # "object" THEN TErr("INVALID_JSON")
  ELSE forEachProperty(C.inst, 1, json, C, strict)

\* ------------------------------------------------------------ toJSON
\* JSON.parse(JSON.stringify(v)) for a property value or array element v;
\* Undef stands for "not serialised"
RECURSIVE JSONValue(_)

\* JSONValue when the result is returned without the JSON round trip doing
\* its work on dates: a Date stays the Date it is
JSONValueKeepDate(v) ==
  CASE v.k \in {"undefined", "function"} -> Undef
    [] v.k \in {"null", "string", "number", "boolean"} -> v
    [] v.k = "date" -> v
    [] v.k = "array" ->
         Arr([i \in 1..Len(v.items) |->
                IF JSONValue(v.items[i]) = Undef THEN Null
                ELSE JSONValue(v.items[i])])
    [] v.k \in {"set", "map"} -> Obj("Object", <<>>)
    [] v.k = "object" ->
         IF v.proto = "String" THEN Str("")
         ELSE IF v.proto = "Number" THEN Num(0)
         ELSE IF v.proto = "Boolean" THEN Bool(FALSE)
         ELSE LET kept == SelectSeq(v.e, LAMBDA p :
                            p.en /\ ~p.sym /\ JSONValue(p.val) # Undef)
              IN Obj("Object",
                     [i \in 1..Len(kept) |-> Prop(kept[i].key, JSONValue(kept[i].val))])

JSONValue(v) ==
  CASE v.k \in {"undefined", "function"} -> Undef
    [] v.k \in {"null", "string", "number", "boolean"} -> v
    [] v.k = "date" -> IF v.valid THEN Str(ISOString(v.t)) ELSE Null
    [] v.k = "array" ->
         Arr([i \in 1..Len(v.items) |->
                IF JSONValue(v.items[i]) = Undef THEN Null
                ELSE JSONValue(v.items[i])])
    [] v.k \in {"set", "map"} -> Obj("Object", <<>>)
    [] v.k = "object" ->
         IF v.proto = "String" THEN Str("")
         ELSE IF v.proto = "Number" THEN Num(0)
         ELSE IF v.proto = "Boolean" THEN Bool(FALSE)
         ELSE LET kept == SelectSeq(v.e, LAMBDA p :
                            p.en /\ ~p.sym /\ JSONValue(p.val) # Undef)
              IN Obj("Object",
                     [i \in 1..Len(kept) |-> Prop(kept[i].key, JSONValue(kept[i].val))])

RECURSIVE toJSON(_)
RECURSIVE toJSONItems(_, _)
RECURSIVE toJSONEntries(_, _)
RECURSIVE toJSONProps(_, _)

\* value.forEach(item => array.push(...)) of lines 181-188
toJSONItems(items, i) ==
  IF i > Len(items) THEN <<>>
  ELSE <<IF ~IsObject(items[i]) THEN items[i] ELSE toJSON(items[i])>>
         \o toJSONItems(items, i + 1)

\* value.forEach((item, key) => Reflect.set(object, key, ...)) of lines 193-200
toJSONEntries(e, i) ==
  IF i > Len(e) THEN <<>>
  ELSE <<Prop(e[i].key, IF ~IsObject(e[i].val) THEN e[i].val ELSE toJSON(e[i].val))>>
         \o toJSONEntries(e, i + 1)

\* toJSONProps with `if (Array.isArray(value))` in place of
\* `if (Array.isArray(value) || value instanceof Set)`
toJSONPropsArraysOnly(props, i) ==
  IF i > Len(props) THEN <<>>
  ELSE LET property == props[i].key
           value == props[i].val
           rest == toJSONProps(props, i + 1)
       IN
       IF TypeOf(value) = "function" THEN rest
       ELSE IF props[i].sym THEN rest
       ELSE IF ~IsObject(value) THEN <<Prop(property, value)>> \o rest
       ELSE IF value.k = "array"
       THEN <<Prop(property, Arr(toJSONItems(value.items, 1)))>> \o rest
       ELSE IF value.k = "map"
       THEN <<Prop(property, Obj("Object", toJSONEntries(value.e, 1)))>> \o rest
       ELSE IF value.k = "date" THEN <<Prop(property, value)>> \o rest
       ELSE <<Prop(property, toJSON(value))>> \o rest

\* Reflect.ownKeys(instance).forEach of lines 172-208
toJSONProps(props, i) ==
  IF i > Len(props) THEN <<>>
  ELSE LET property == props[i].key
           value == props[i].val
           rest == toJSONProps(props, i + 1)
       IN
       IF TypeOf(value) = "function" THEN rest
       ELSE IF props[i].sym THEN rest
       ELSE IF ~IsObject(value) THEN <<Prop(property, value)>> \o rest
       ELSE IF value.k \in {"array", "set"}
       THEN <<Prop(property, Arr(toJSONItems(value.items, 1)))>> \o rest
       ELSE IF value.k = "map"
       THEN <<Prop(property, Obj("Object", toJSONEntries(value.e, 1)))>> \o rest
       ELSE IF value.k = "date" THEN <<Prop(property, value)>> \o rest
       ELSE <<Prop(property, toJSON(value))>> \o rest

\* Transformer.toJSON(instance)
toJSON(instance) ==
  JSONValue(Obj("Object", toJSONProps(OwnProps(instance), 1)))

\* ------------------------------------------------------------ inputs
\* primitive values of each typeof, the falsy ones included
Primitives == {Str(""), Str("a"), Num(0), Num(1), Bool(FALSE), Bool(TRUE)}

\* elements of source arrays and values of source objects
Elements ==
  {Num(1), Num(2), Str("1970-01-02"), Bool(TRUE), Null,
   Obj("Object", <<>>), Obj("Object", <<Prop("name", Str("g"))>>)}

KeyNames == <<"a", "b", "c", "d", "e">>

SourceArrays == {Arr(items) : items \in UNION {[1..n -> Elements] : n \in 0..MaxLen}}

SourceObjects ==
  {Obj("Object", [i \in 1..Len(vals) |-> Prop(KeyNames[i], vals[i])]) :
     vals \in UNION {[1..n -> Elements] : n \in 0..MaxLen}}

\* sources of a nested Organization: { name: 'g' } and { name: 1 }
NestedSources ==
  {Obj("Object", <<Prop("name", Str("g"))>>), Obj("Object", <<Prop("name", Num(1))>>)}

\* what a source may hold under a key
SourceValues ==
  Primitives \cup {Null, Str("1970-01-02"), Num(86400000)}
    \cup SourceArrays \cup SourceObjects \cup NestedSources

\* default values of the field `bar` of a target class
Defaults ==
  Primitives \cup
  {Null, Undef, Arr(<<>>), Arr(<<Num(1)>>), SetOf(<<>>), MapOf(<<>>), DateOf(Now),
   Obj("null", <<>>), Obj("Object", <<>>),
   Obj("Organization", <<Prop("name", Str("x"))>>), Fn("Map")}

\* descriptors of the field `bar` in the static `types`; Undef: no entry
DescriptorParts ==
  {<<>>,
   <<Prop("strict", Bool(TRUE))>>,
   <<Prop("strict", Bool(FALSE))>>,
   <<Prop("of", Fn("Bar"))>>,
   <<Prop("of", Fn("Organization"))>>,
   <<Prop("of", Fn("Organization")), Prop("strict", Bool(FALSE))>>,
   <<Prop("of", Fn("Date"))>>,
   <<Prop("of", Fn("String"))>>,
   <<Prop("type", Fn("String"))>>,
   <<Prop("type", Fn("Array")), Prop("of", Fn("Organization"))>>,
   <<Prop("type", Fn("Date")), Prop("strict", Bool(FALSE))>>,
   <<Prop("type", Bool(TRUE))>>}

Descriptors == {Undef} \cup {Obj("Object", e) : e \in DescriptorParts}

\* class Target { static types = { bar: descriptor }; bar = default }
OneFieldClass(default, descriptor) ==
  MkClass("Target", "new", Obj("Target", <<Prop("bar", default)>>),
          IF descriptor = Undef THEN Undef
          ELSE Obj("Object", <<Prop("bar", descriptor)>>))

\* class Target { a = da; b = db } with primitive defaults and no `types`
FlatClass(da, db) ==
  MkClass("Target", "new", Obj("Target", <<Prop("a", da), Prop("b", db)>>), Undef)

OneFieldInputs ==
  {<<OneFieldClass(d, t), j>> :
     d \in Defaults, t \in Descriptors,
     j \in {Obj("Object", <<>>)}
             \cup {Obj("Object", <<Prop("bar", v)>>) : v \in SourceValues}}

FlatInputs ==
  {<<FlatClass(da, db), Obj("Object", <<Prop("a", va), Prop("b", vb)>>)>> :
     da \in Primitives, db \in Primitives, va \in Primitives, vb \in Primitives}

\* an own property as Reflect.defineProperty or a symbol key makes it
Member(key, val, w, en, sym) ==
  [key |-> key, val |-> val, w |-> w, en |-> en, sym |-> sym]

\* the member `bar` of class Foo: a symbol-keyed field, a constructor stored
\* as a value, an arrow-function field, and fields defined non-writable
\* and/or non-enumerable
FooMembers ==
  {Member("bar", Str("a"), TRUE, TRUE, TRUE),
   Member("bar", Fn("Map"), TRUE, TRUE, FALSE),
   Member("bar", Fn("arrow"), TRUE, TRUE, FALSE),
   Member("bar", Str("a"), FALSE, TRUE, FALSE),
   Member("bar", Str("a"), FALSE, FALSE, FALSE),
   Member("bar", Str("a"), TRUE, FALSE, FALSE),
   Member("bar", Obj("Object", <<Prop("a", Str(""))>>), FALSE, TRUE, FALSE),
   Member("bar", Obj("Object", <<Prop("a", Str(""))>>), FALSE, FALSE, FALSE)}

\* the members class Foo inherits from Foo.prototype: a method and a getter
PrototypeKeys(name) == IF name = "Foo" THEN {"run", "baz"} ELSE {}

\* class Foo { run() {}; get baz() { return 'baz' }; <member>; qux = () => {} }
MemberClass(member) ==
  MkClass("Foo", "new", Obj("Foo", <<member, Prop("qux", Fn("arrow"))>>), Undef)

\* sources holding something, or nothing, under the keys of Foo
MemberSources ==
  {Obj("Object", <<>>),
   Obj("Object", <<Prop("bar", Str("b"))>>),
   Obj("Object", <<Prop("bar", Num(1))>>),
   Obj("Object", <<Prop("bar", Obj("Object", <<Prop("a", Str("222"))>>))>>),
   Obj("Object", <<Member("bar", Str("b"), TRUE, TRUE, TRUE)>>),
   Obj("Object", <<Prop("qux", Str("b"))>>),
   Obj("Object", <<Prop("bar", Str("b")), Prop("qux", Str("b"))>>)}

MemberInputs == {<<MemberClass(m), j>> : m \in FooMembers, j \in MemberSources}

\* second arguments of fromJSON: none, an arrow function, a class whose
\* constructor throws, class Bar {} and class Organization
Targets ==
  {MkClass("", "absent", Undef, Undef),
   ClassDef("arrow"),
   MkClass("Thrower", "throws", Undef, Undef),
   ClassDef("Bar"),
   ClassDef("Organization")}

\* first arguments of fromJSON, object-shaped or not
TopSources ==
  {Null, Undef, Str("a"), Str(""), Num(1), Num(0), Bool(TRUE), Bool(FALSE),
   Arr(<<>>), Obj("Object", <<>>)} \cup NestedSources

TargetInputs == {<<C, j>> : C \in Targets, j \in TopSources}

\* values held by the fields of an instance handed to toJSON
FieldValues ==
  {Str(""), Num(0), Bool(TRUE), Null,
   Arr(<<Obj("Bar", <<>>)>>), Arr(<<Num(1), Num(2), Num(3)>>),
   SetOf(<<Obj("Bar", <<>>)>>), SetOf(<<Str("foo"), Str("bar")>>),
   SetOf(<<Obj("Organization", <<Prop("name", Str("x"))>>), Null>>),
   MapOf(<<Prop("1", Obj("Bar", <<>>))>>), MapOf(<<Prop("1", Str("1"))>>),
   MapOf(<<Prop("k", Obj("Organization", <<Prop("name", Str("x"))>>)),
           Prop("l", Num(2))>>),
   DateOf(Now), DateOf(0), InvalidDate,
   Obj("Bar", <<Prop("time", DateOf(Now))>>),
   Obj("Bar", <<Prop("time", InvalidDate)>>),
   Obj("Bar", <<Prop("set", SetOf(<<Num(1)>>))>>)}

\* class Foo { x = vx; y = vy }, its constructor filling the collections
EncodeClass(vx, vy) ==
  MkClass("Foo", "new", Obj("Foo", <<Prop("x", vx), Prop("y", vy)>>), Undef)

\* collections of Dates, as `of: Date` declares them, and of Arrays
ElementValues ==
  {Arr(<<DateOf(0)>>), SetOf(<<DateOf(Now), Arr(<<Num(1)>>)>>),
   MapOf(<<Prop("d", DateOf(Now)), Prop("a", Arr(<<Num(1)>>))>>)}

EncodeInputs ==
  {<<EncodeClass(vx, vy), Obj("Object", <<>>)>> :
     vx \in FieldValues \cup ElementValues, vy \in FieldValues \cup ElementValues}

\* an array and a plain object created by the caller: id tells the object
\* from every other one, so a value that carries it is that very object and
\* not a copy
SrcArr(id, items) == [k |-> "array", items |-> items, id |-> id]
SrcObj(id, e) == [k |-> "object", proto |-> "Object", e |-> e, id |-> id]

\* what the caller's source holds under `bar` when its objects are told apart
AliasSources ==
  {SrcArr(2, <<>>),
   SrcArr(2, <<Num(1)>>),
   SrcArr(2, <<SrcObj(3, <<Prop("name", Str("g"))>>)>>),
   SrcObj(2, <<Prop("name", Str("g"))>>),
   SrcObj(2, <<Prop("a", SrcObj(3, <<>>))>>)}

AliasInputs ==
  {<<OneFieldClass(d, t), SrcObj(1, <<Prop("bar", v)>>)>> :
     d \in Defaults, t \in Descriptors, v \in AliasSources}

Inputs ==
  OneFieldInputs \cup FlatInputs \cup MemberInputs \cup TargetInputs \cup EncodeInputs

\* ------------------------------------------------------------ state
VARIABLES Class, json, strict, pc, outcome, plain

vars == <<Class, json, strict, pc, outcome, plain>>

Init ==
  /\ \/ \E input \in Inputs : Class = input[1] /\ json = input[2]
     \/ \E input \in AliasInputs : Class = input[1] /\ json = input[2]
  /\ strict \in BOOLEAN
  /\ pc = "start"
  /\ outcome = [st |-> "none"]
  /\ plain = Undef

\* const instance = Transformer.fromJSON(json, Class, strict)
Decode ==
  /\ pc = "start"
  /\ outcome' = fromJSON(json, Class, strict)
  /\ pc' = "decoded"
  /\ UNCHANGED <<Class, json, strict, plain>>

\* const plain = Transformer.toJSON(instance)
Encode ==
  /\ pc = "decoded"
  /\ outcome.st = "ok"
  /\ plain' = toJSON(outcome.v)
  /\ pc' = "encoded"
  /\ UNCHANGED <<Class, json, strict, outcome>>

\* const plain = Transformer.toJSON(new Class())
EncodeNew ==
  /\ pc = "start"
  /\ Class.ctor = "new"
  /\ plain' = toJSON(Class.inst)
  /\ pc' = "flattened"
  /\ UNCHANGED <<Class, json, strict, outcome>>

Next == Decode \/ Encode \/ EncodeNew

Spec == Init /\ [][Next]_vars

\* ------------------------------------------------------------ properties
\* vocabulary of the properties below
Decoded == pc = "decoded"
Returned == outcome.st = "ok"
RaisedTransformerError == outcome.st = "throw" /\ outcome.err = "TransformerError"
OneField == Class.ctor = "new" /\ json.k = "object" /\ Len(Class.inst.e) = 1
Default == Class.inst.e[1].val
Descriptor == IF Class.types = Undef THEN Undef ELSE Get(Class.types, "bar")
Present == HasOwn(json, "bar")
Source == Get(json, "bar")
Field == outcome.v.e[1].val
IsPrimitiveValue(v) == v.k \in {"string", "number", "boolean"}
IsPlainObject(v) == v.k = "object" /\ v.proto = "Object"

\* the strictness a field is specified to get: descriptor.strict when it is
\* a boolean, the third argument otherwise
EffectiveStrict ==
  IF IsObject(Descriptor) /\ Get(Descriptor, "strict").k = "boolean"
  THEN Get(Descriptor, "strict").b
  ELSE strict

\* a class of primitive fields without `types`, and a source holding a value
\* of the same typeof under each of its field names and nothing else
FlatMatch ==
  /\ Class.ctor = "new" /\ json.k = "object"
  /\ Class.types = Undef
  /\ \A i \in 1..Len(Class.inst.e) :
       /\ IsPrimitiveValue(Class.inst.e[i].val)
       /\ HasOwn(json, Class.inst.e[i].key)
       /\ TypeOf(Get(json, Class.inst.e[i].key)) = TypeOf(Class.inst.e[i].val)
  /\ Len(json.e) = Len(Class.inst.e)

\* C1: in strict mode, decoding a source that matches a class of primitive
\* fields (falsy defaults and falsy source values included) returns an
\* instance of the class whose every field equals the source value
C1_PrimitiveFieldsAssigned ==
  (Decoded /\ strict /\ FlatMatch) =>
     /\ Returned
     /\ outcome.v.proto = Class.name
     /\ \A i \in 1..Len(Class.inst.e) :
          outcome.v.e[i].val = Get(json, Class.inst.e[i].key)

\* structural equality of two flat records, whatever the order of the keys
FlatEqual(x, y) ==
  /\ x.k = "object" /\ y.k = "object"
  /\ {x.e[i].key : i \in 1..Len(x.e)} = {y.e[i].key : i \in 1..Len(y.e)}
  /\ \A i \in 1..Len(x.e) : Get(y, x.e[i].key) = x.e[i].val

\* C2: round trip on flat records: toJSON(fromJSON(j, T)) is structurally
\* equal to j for every j matching the primitive fields of T
C2_FlatRoundTrip ==
  FlatMatch =>
     /\ Decoded => Returned
     /\ pc = "encoded" => FlatEqual(plain, json)

\* the source value disagrees in shape with the default of the field
ShapeMismatch ==
  \/ IsPrimitiveValue(Default) /\ TypeOf(Source) # TypeOf(Default)
  \/ Default.k \in {"array", "set"} /\ Source.k # "array"
  \/ Default.k = "map" /\ ~IsPlainObject(Source)
  \/ Default.k = "date" /\ TypeOf(Source) \notin {"string", "number"}

\* the field's descriptor, if any, declares no `type`: the default alone
\* gives the kind of the field
KindFromDefault == Descriptor = Undef \/ Get(Descriptor, "type") = Undef

\* C3: in strict mode (ambient or per-field) a present source value whose
\* shape disagrees with the default of the field raises a TransformerError
C3_StrictMismatchRaises ==
  (Decoded /\ OneField /\ KindFromDefault /\ EffectiveStrict /\ Present
     /\ ShapeMismatch)
     => RaisedTransformerError

\* strictness is off for the field by the third argument and by the
\* descriptor alike (the precedence between the two plays no part)
Lenient == ~strict /\ ~EffectiveStrict

\* C4: in non-strict mode a present mismatching source value raises nothing
\* and is held unchanged by the field, for primitive, Array, Map and Set
\* defaults
C4_LenientMismatchAsIs ==
  (Decoded /\ OneField /\ KindFromDefault /\ Lenient /\ Present
     /\ ShapeMismatch /\ Default.k # "date")
     => (Returned /\ Field = Source)

\* the field is one fromJSON processes: own, writable, not symbol-keyed (as
\* every field of the generated classes) and not function-valued
Processed == Default.k # "function"

\* the default is truthy, so that it is itself the value whose kind is
\* inspected (lines 66-75 replace a falsy default by a placeholder)
TruthyDefault == KindFromDefault /\ ~Falsy(Default)

StrictRequested ==
  strict \/ (IsObject(Descriptor) /\ Get(Descriptor, "strict") = Bool(TRUE))

\* the defaults under which a lenient null is stored: truthy primitives,
\* Array, Set, Map and prototype-less objects
StoresNull ==
  \/ IsPrimitiveValue(Default) /\ ~Falsy(Default)
  \/ Default.k \in {"array", "set", "map"}
  \/ Default.k = "object" /\ Default.proto = "null"

C6_MissingField ==
  (Decoded /\ OneField /\ Processed /\ TruthyDefault /\ ~Present) =>
     /\ EffectiveStrict => RaisedTransformerError
     /\ Lenient => (Returned /\ Field = Default)

\* C7: a boolean descriptor.strict is the strictness of its field whatever
\* the third argument: strict: false lets a mismatching value through under
\* fromJSON(json, Class, true), strict: true raises under
\* fromJSON(json, Class, false)
C7_FieldStrictWins ==
  (Decoded /\ OneField /\ IsObject(Descriptor)
     /\ Get(Descriptor, "strict").k = "boolean"
     /\ IsPrimitiveValue(Default) /\ TruthyDefault /\ Present
     /\ TypeOf(Source) # TypeOf(Default)) =>
     /\ shouldThrow(strict, Descriptor) = Get(Descriptor, "strict").b
     /\ IF Get(Descriptor, "strict").b
        THEN RaisedTransformerError
        ELSE Returned /\ Field = Source

\* no element type is declared for the field
NoElementType == Descriptor = Undef \/ Get(Descriptor, "of") = Undef

\* C8: with no element type declared, a Set default decodes a source array
\* into a Set of exactly its distinct elements and a Map default decodes a
\* source object into a Map with one entry per own key
C8_StructuralCoercion ==
  (Decoded /\ OneField /\ KindFromDefault /\ NoElementType /\ Present) =>
     /\ (Default = SetOf(<<>>) /\ Source.k = "array") =>
          /\ Returned
          /\ Field.k = "set"
          /\ {Field.items[i] : i \in 1..Len(Field.items)}
               = {Source.items[i] : i \in 1..Len(Source.items)}
          /\ \A i, j \in 1..Len(Field.items) :
               (i # j /\ ~IsObject(Field.items[i])) => Field.items[i] # Field.items[j]
     /\ (Default = MapOf(<<>>) /\ IsPlainObject(Source)) =>
          /\ Returned
          /\ Field.k = "map"
          /\ Len(Field.e) = Len(Source.e)
          /\ \A i \in 1..Len(Source.e) :
               \E j \in 1..Len(Field.e) :
                 Field.e[j].key = Source.e[i].key /\ Field.e[j].val = Source.e[i].val

\* the elements of a decoded Array or Set, the values of a decoded Map
Members(c) ==
  IF c.k = "map" THEN [i \in 1..Len(c.e) |-> c.e[i].val] ELSE c.items

\* the elements of a source array, the values of a source object
SourceMembers(v) ==
  IF v.k = "array" THEN v.items ELSE [i \in 1..Len(v.e) |-> v.e[i].val]

\* the source value has the shape the default asks for
ShapeMatch ==
  \/ Default.k \in {"array", "set"} /\ Source.k = "array"
  \/ Default.k = "map" /\ IsPlainObject(Source)

\* C9: with `of: E` declared for an Array, Set or Map field, every member of
\* the decoded collection is an instance of E built from the object-shaped
\* source member; with no `of` (or no `types`) nothing is raised and every
\* member is the source member unchanged
C9_DeclaredElementType ==
  (Decoded /\ OneField /\ KindFromDefault /\ Present
     /\ Default \in {Arr(<<>>), SetOf(<<>>), MapOf(<<>>)} /\ ShapeMatch) =>
     /\ (~NoElementType /\ Get(Descriptor, "of") \in {Fn("Bar"), Fn("Organization")}
           /\ Returned
           /\ \A i \in 1..Len(SourceMembers(Source)) :
                IsPlainObject(SourceMembers(Source)[i])) =>
          /\ Field.k = Default.k
          /\ Len(Members(Field)) = Len(SourceMembers(Source))
          /\ \A i \in 1..Len(Members(Field)) :
               /\ Members(Field)[i].k = "object"
               /\ Members(Field)[i].proto = Get(Descriptor, "of").name
     /\ NoElementType =>
          /\ Returned
          /\ Field.k = Default.k
          /\ \A i \in 1..Len(SourceMembers(Source)) :
               \E j \in 1..Len(Members(Field)) :
                 Members(Field)[j] = SourceMembers(Source)[i]

\* C10: in strict mode a Date default decodes a date string or a numeric
\* timestamp into new Date(sourceValue) and raises nothing
C10_DateCoercion ==
  (Decoded /\ OneField /\ KindFromDefault /\ strict /\ Default.k = "date"
     /\ Present
     /\ (Source.k = "number" \/ (Source.k = "string" /\ DateParse(Source.s) >= 0)))
     => (Returned /\ Field = NewDate(Source))

\* the default of the field is an instance of class Organization { name = 'x' }
NestedDefault == Default = ClassDef("Organization").inst

\* C11: a field whose default is an instance of class Organization holds,
\* after decoding { bar: { name: ... } }, an Organization populated from the
\* nested source; a type mismatch inside the nested source raises a
\* TransformerError when the effective strictness of the field is true, and
\* is let through when it is false
C11_NestedTypedObject ==
  (Decoded /\ OneField /\ KindFromDefault /\ NestedDefault /\ Present
     /\ Source \in NestedSources) =>
     /\ Get(Source, "name").k = "string" =>
          /\ Returned
          /\ Field.k = "object" /\ Field.proto = "Organization"
          /\ Get(Field, "name") = Get(Source, "name")
     /\ (Get(Source, "name").k # "string" /\ EffectiveStrict) =>
          RaisedTransformerError
     /\ (Get(Source, "name").k # "string" /\ Lenient) =>
          /\ Returned
          /\ Field.k = "object" /\ Field.proto = "Organization"
          /\ Get(Field, "name") = Get(Source, "name")

\* the default of the field is null or undefined
NullDefault == Default \in {Null, Undef}

\* descriptor.type, undefined when the field has no descriptor
DeclaredType == IF IsObject(Descriptor) THEN Get(Descriptor, "type") ELSE Undef

\* C12: for a field whose default is null or undefined, the placeholder built
\* from descriptor.type decides the kind (type: Array makes a non-array source
\* a mismatch); with no descriptor type, or one that cannot be constructed,
\* fromJSON raises a TransformerError when the effective strictness is true,
\* and otherwise raises nothing and leaves the field as it was
C12_NullDefault ==
  (Decoded /\ OneField /\ NullDefault) =>
     /\ New(DeclaredType).st # "ok" =>
          /\ EffectiveStrict => RaisedTransformerError
          /\ Lenient => (Returned /\ Field = Default)
     /\ (DeclaredType = Fn("Array") /\ EffectiveStrict /\ Present
           /\ Source.k # "array") => RaisedTransformerError

\* a member that is no data field: symbol-keyed or function-valued
Invisible(p) == p.sym \/ TypeOf(p.val) = "function"

\* toJSON has run, on the decoded instance or on a fresh one
Encoded == pc \in {"encoded", "flattened"}

\* the instance toJSON was given
Instance == IF pc = "encoded" THEN outcome.v ELSE Class.inst

\* the keys of the plain value, of the own members of an object
KeysOf(o) == {o.e[i].key : i \in 1..Len(o.e)}

\* C13: fromJSON leaves every symbol-keyed and every function-valued member
\* of the instance as constructed, whatever the source holds under its key,
\* and raises nothing on a class that has no other member; toJSON returns an
\* object with the plain Object prototype that has no symbol key, no key of
\* a function-valued member and no key of a prototype method or getter
C13_InvisibleMembers ==
  /\ (Decoded /\ Class.ctor = "new" /\ json.k = "object") =>
       /\ Returned =>
            \A i \in 1..Len(Class.inst.e) :
              Invisible(Class.inst.e[i]) => outcome.v.e[i] = Class.inst.e[i]
       /\ (\A i \in 1..Len(Class.inst.e) : Invisible(Class.inst.e[i])) => Returned
  /\ Encoded =>
       /\ plain.k = "object" /\ plain.proto = "Object"
       /\ \A j \in 1..Len(plain.e) : ~plain.e[j].sym
       /\ \A i \in 1..Len(Instance.e) :
            TypeOf(Instance.e[i].val) = "function" =>
              Instance.e[i].key \notin KeysOf(plain)
       /\ KeysOf(plain) \cap PrototypeKeys(Instance.proto) = {}

\* C13 witness: { bar: 'b', qux: 'b' } was decoded into class Foo with a
\* symbol-keyed bar and an arrow-function qux, both members are as
\* constructed, and the instance was encoded to {}
C13_Witness ==
  /\ pc = "encoded"
  /\ Class = MemberClass(Member("bar", Str("a"), TRUE, TRUE, TRUE))
  /\ json = Obj("Object", <<Prop("bar", Str("b")), Prop("qux", Str("b"))>>)
  /\ outcome.v = Class.inst
  /\ plain = Obj("Object", <<>>)

\* a member that is not writable or not enumerable
Skipped(p) == ~p.w \/ ~p.en

\* C14: a member of the fresh instance that is non-writable, or
\* non-enumerable (writable or not), keeps its constructed value whatever the
\* source holds for it, and a class all of whose members are such (or are
\* symbol-keyed or function-valued) raises nothing, in strict mode too
C14_OnlyWritableEnumerable ==
  (Decoded /\ Class.ctor = "new" /\ json.k = "object") =>
     /\ Returned =>
          \A i \in 1..Len(Class.inst.e) :
            (Skipped(Class.inst.e[i]) /\ HasOwn(json, Class.inst.e[i].key))
              => outcome.v.e[i] = Class.inst.e[i]
     /\ (\A i \in 1..Len(Class.inst.e) :
           Skipped(Class.inst.e[i]) \/ Invisible(Class.inst.e[i])) => Returned

\* C15: fromJSON raises a TransformerError for the invalid target when its
\* second argument cannot be constructed with `new` (an arrow function, a
\* constructor that throws), and a TransformerError for the invalid source
\* when the target is constructible and the source is null, undefined, or not
\* of type object; no instance is returned in either case
C15_Preconditions ==
  Decoded =>
     /\ Class.ctor \in {"arrow", "throws"} =>
          RaisedTransformerError /\ outcome.msg = "INVALID_CONSTRUCTOR"
     /\ (Class.ctor = "new" /\ (json \in {Null, Undef} \/ TypeOf(json) # "object")) =>
          RaisedTransformerError /\ outcome.msg = "INVALID_JSON"

\* C15 witness: Transformer.fromJSON(null, Bar) has raised the
\* TransformerError of an invalid source
C15_Witness ==
  /\ Decoded
  /\ Class = ClassDef("Bar") /\ json = Null
  /\ outcome = TErr("INVALID_JSON")

\* C16: whatever the source, the class, its `types` and its descriptors, a
\* call of fromJSON that terminates abnormally raises a TransformerError,
\* never a generic error of the host
C16_OnlyTransformerErrors ==
  (Decoded /\ outcome.st = "throw") => outcome.err = "TransformerError"

\* a primitive that JSON text represents as itself: string, number, boolean,
\* null
IsJSONPrimitive(v) == IsPrimitiveValue(v) \/ v = Null

\* the plain value q is what item x of a collection is flattened to: x itself
\* when primitive, the plain object toJSON(x) when an object
FlattenedTo(x, q) ==
  /\ IsJSONPrimitive(x) => q = x
  /\ IsObject(x) => (IsPlainObject(q) /\ q = toJSON(x))

\* C17: in the value toJSON returns, every Array-valued or Set-valued field
\* of the instance is an array with one entry per element, in iteration
\* order, and every Map-valued field is a plain object with one property per
\* entry under the entry's key; a primitive element is copied unchanged and
\* an object element is replaced by its toJSON encoding, a plain object
C17_CollectionsFlattened ==
  Encoded =>
    \A i \in 1..Len(Instance.e) :
      LET p == Instance.e[i]
          q == Get(plain, p.key)
      IN /\ (~p.sym /\ p.val.k \in {"array", "set"}) =>
              /\ q.k = "array"
              /\ Len(q.items) = Len(p.val.items)
              /\ \A n \in 1..Len(p.val.items) :
                   FlattenedTo(p.val.items[n], q.items[n])
         /\ (~p.sym /\ p.val.k = "map") =>
              /\ IsPlainObject(q)
              /\ Len(q.e) = Len(p.val.e)
              /\ \A n \in 1..Len(p.val.e) :
                   /\ HasOwn(q, p.val.e[n].key)
                   /\ FlattenedTo(p.val.e[n].val, Get(q, p.val.e[n].key))

\* C17 witness: toJSON of an instance holding a Set of an Organization and
\* null and a Map of an Organization and 2 returned
\* { x: [{ name: 'x' }, null], y: { k: { name: 'x' }, l: 2 } }
C17_Witness ==
  /\ pc = "flattened"
  /\ Class = EncodeClass(
       SetOf(<<Obj("Organization", <<Prop("name", Str("x"))>>), Null>>),
       MapOf(<<Prop("k", Obj("Organization", <<Prop("name", Str("x"))>>)),
               Prop("l", Num(2))>>))
  /\ plain = Obj("Object",
       <<Prop("x", Arr(<<Obj("Object", <<Prop("name", Str("x"))>>), Null>>)),
         Prop("y", Obj("Object",
                <<Prop("k", Obj("Object", <<Prop("name", Str("x"))>>)),
                  Prop("l", Num(2))>>))>>)

\* a class instance held by a field: an object that is no Array, Set, Map or
\* Date
IsNestedInstance(v) == v.k = "object"

\* every Date-valued field of inst, and of the nested instances its fields
\* hold, is a string in the plain value pl
RECURSIVE DatesAreStrings(_, _)
DatesAreStrings(inst, pl) ==
  \A i \in 1..Len(inst.e) :
    LET p == inst.e[i]
    IN /\ (~p.sym /\ p.val.k = "date") => Get(pl, p.key).k = "string"
       /\ (~p.sym /\ IsNestedInstance(p.val)) =>
            DatesAreStrings(p.val, Get(pl, p.key))

\* C18 as the specification states it: in the value toJSON returns, every
\* Date-valued field, at the top level and in every nested object, is a
\* string
C18_DatesAreStrings == Encoded => DatesAreStrings(Instance, plain)

\* every Date-valued field of inst, and of the nested instances its fields
\* hold, is in pl the date's toISOString() when the date is valid and null
\* when it is an Invalid Date
RECURSIVE DatesSerialized(_, _)
DatesSerialized(inst, pl) ==
  \A i \in 1..Len(inst.e) :
    LET p == inst.e[i]
    IN /\ (~p.sym /\ p.val.k = "date") =>
            Get(pl, p.key) = (IF p.val.valid THEN Str(ISOString(p.val.t)) ELSE Null)
       /\ (~p.sym /\ IsNestedInstance(p.val)) =>
            /\ IsPlainObject(Get(pl, p.key))
            /\ DatesSerialized(p.val, Get(pl, p.key))

\* C18 (amended): in the value toJSON returns, every Date-valued field, at
\* the top level and in every nested object reached by recursion, is the
\* date's ISO string when the date is valid and null when it is an Invalid
\* Date; it is never a Date instance
C18_DatesSerialized == Encoded => DatesSerialized(Instance, plain)

\* C18 witness: toJSON of an instance holding new Date() in x and, in y, a
\* Bar whose time is an Invalid Date returned
\* { x: '1970-01-03T00:00:00.000Z', y: { time: null } }
C18_Witness ==
  /\ pc = "flattened"
  /\ Class = EncodeClass(DateOf(Now), Obj("Bar", <<Prop("time", InvalidDate)>>))
  /\ plain = Obj("Object",
       <<Prop("x", Str("1970-01-03T00:00:00.000Z")),
         Prop("y", Obj("Object", <<Prop("time", Null)>>))>>)

\* the default of the field is an object without prototype
PrototypeLess == Default = Obj("null", <<>>)

\* C20: a field whose default is Object.create(null) is assigned an
\* object-shaped source value verbatim; a source value that is not
\* object-shaped raises a TransformerError when the effective strictness of
\* the field is true and raises nothing when it is false
C20_PrototypeLessDefault ==
  (Decoded /\ OneField /\ KindFromDefault /\ PrototypeLess /\ Present) =>
     /\ (Source.k \in {"object", "array"}) => (Returned /\ Field = Source)
     /\ (IsPrimitiveValue(Source) /\ EffectiveStrict) => RaisedTransformerError
     /\ (IsPrimitiveValue(Source) /\ Lenient) => Returned

\* an Array, Set or Map default whose source value has the matching shape,
\* the kind of the field coming from the default
CollectionField ==
  /\ OneField /\ KindFromDefault /\ Present
  /\ Default \in {Arr(<<>>), SetOf(<<>>), MapOf(<<>>)}
  /\ ShapeMatch

\* the element type the descriptor of the field declares with `of`
ElementType == IF IsObject(Descriptor) THEN Get(Descriptor, "of") ELSE Undef

\* a date string or a numeric timestamp
IsDateSource(v) ==
  \/ v.k = "number"
  \/ v.k = "string" /\ DateParse(v.s) >= 0

\* C21: with `of: Date` declared for an Array, Set or Map field, a source
\* whose members are date strings or numeric timestamps raises nothing and
\* every member of the decoded collection is the Date made from the source
\* member at the same place
C21_DateElements ==
  (Decoded /\ CollectionField /\ ElementType = Fn("Date")
     /\ \A i \in 1..Len(SourceMembers(Source)) :
          IsDateSource(SourceMembers(Source)[i])) =>
     /\ Returned
     /\ Field.k = Default.k
     /\ Len(Members(Field)) = Len(SourceMembers(Source))
     /\ \A i \in 1..Len(Members(Field)) :
          Members(Field)[i] = NewDate(SourceMembers(Source)[i])

\* a source member that cannot be turned into a date
NotADate(v) == v.k \in {"boolean", "null", "object"}

\* C22: with `of: Date` declared for an Array, Set or Map field, a source
\* member that is a boolean, null or an object makes fromJSON raise a
\* TransformerError; stated here for a strict third argument, the case the
\* claim shares with the tests of the repository
C22_DateElementCheck ==
  (Decoded /\ CollectionField /\ ElementType = Fn("Date") /\ strict
     /\ \E i \in 1..Len(SourceMembers(Source)) :
          NotADate(SourceMembers(Source)[i])) =>
     RaisedTransformerError

\* C23: with `of: E` declared for an Array, Set or Map field, E a class, a
\* primitive source member raises nothing and is a member of the decoded
\* collection unchanged; stated here for sources of primitives only and
\* the non-strict mode, in which a value that does not fit is used as is
C23_PrimitiveElementsKept ==
  (Decoded /\ CollectionField /\ Lenient
     /\ ElementType \in {Fn("Bar"), Fn("Organization")}
     /\ \A i \in 1..Len(SourceMembers(Source)) :
          SourceMembers(Source)[i].k \in {"string", "number", "boolean"}) =>
     /\ Returned
     /\ Field.k = Default.k
     /\ \A i \in 1..Len(SourceMembers(Source)) :
          \E j \in 1..Len(Members(Field)) :
            Members(Field)[j] = SourceMembers(Source)[i]

\* C25: a field whose default is the plain object literal {} and whose
\* source value is a non-null plain object holds, in the returned instance,
\* every entry of that source object
C25_PlainObjectDefault ==
  (Decoded /\ OneField /\ KindFromDefault /\ Present
     /\ Default = Obj("Object", <<>>) /\ IsPlainObject(Source)) =>
     /\ Returned
     /\ Field.k = "object"
     /\ \A i \in 1..Len(Source.e) :
          /\ HasOwn(Field, Source.e[i].key)
          /\ Get(Field, Source.e[i].key) = Source.e[i].val

\* the plain value q encodes item x of a collection as a field holding x is
\* encoded: a valid Date as its ISO string, an Array as an array
EncodedAsField(x, q) ==
  /\ (x.k = "date" /\ x.valid) => q = Str(ISOString(x.t))
  /\ x.k = "array" => q.k = "array"

\* C26: in the value toJSON returns, a Date that is an element of an Array
\* or Set, or a value of a Map, is the date's string form, and an Array
\* that is such an element or value is an array; neither is an empty object
\* or an object with index and length keys
C26_ElementsEncodedAsFields ==
  Encoded =>
    \A i \in 1..Len(Instance.e) :
      LET p == Instance.e[i]
          q == Get(plain, p.key)
      IN /\ (~p.sym /\ p.val.k \in {"array", "set"}) =>
              /\ q.k = "array"
              /\ Len(q.items) = Len(p.val.items)
              /\ \A n \in 1..Len(p.val.items) :
                   EncodedAsField(p.val.items[n], q.items[n])
         /\ (~p.sym /\ p.val.k = "map") =>
              /\ IsPlainObject(q)
              /\ \A n \in 1..Len(p.val.e) :
                   /\ HasOwn(q, p.val.e[n].key)
                   /\ EncodedAsField(p.val.e[n].val, Get(q, p.val.e[n].key))

\* the objects of the caller's source that the value v is or holds, at any
\* depth
RECURSIVE SourceObjectsIn(_)
SourceObjectsIn(v) ==
  (IF "id" \in DOMAIN v THEN {v.id} ELSE {})
    \cup (CASE v.k \in {"array", "set"} ->
                 UNION {SourceObjectsIn(v.items[i]) : i \in 1..Len(v.items)}
            [] v.k \in {"map", "object"} ->
                 UNION {SourceObjectsIn(v.e[i].val) : i \in 1..Len(v.e)}
            [] OTHER -> {})

\* C24: the instance fromJSON returned and the instance a second fromJSON
\* call on the same source and class returns have no object in common.
\* Every object a call constructs is its own, so the objects two returned
\* instances can have in common are the objects of the source. Stated here
\* for an Array, Set or Map field decoded from a source of the matching
\* shape
C24_NoAliasing ==
  (Decoded /\ Returned /\ CollectionField) =>
     LET second == fromJSON(json, Class, strict)
     IN second.st = "ok" =>
          SourceObjectsIn(outcome.v) \cap SourceObjectsIn(second.v) = {}

====
